---- MODULE Spec2Model ----
(***************************************************************************)
(* Model of fractal-rs: Mandelbrot::new and Mandelbrot::render             *)
(* (src/src/lib.rs) with util::hsl_rgb (src/src/util.rs).                  *)
(*                                                                         *)
(* Number representations                                                  *)
(*   f64 geometry (viewport, c, z)  fixed point, FP units per 1.0, plus    *)
(*                                  the IEEE specials PINF, NINF, NAN      *)
(*   config.zoom, DEFAULT_ZOOM      integers in units of 1e-9              *)
(*   hist: Vec<u32>                 its length and the bag of its non-zero  *)
(*                                  entries: hist[i] = CopiesIn(i, bag)    *)
(*   continuous iteration value m   integer number of eighths (MQ), or NAN *)
(*   f32 hues table                 integers in units of 2^-30, rounded to *)
(*                                  24 significant bits as f32 does, or    *)
(*                                  F32NaN                                 *)
(*   f32 interpolated position      pair <<hi, lo>> = hi*2^15 + lo in      *)
(*                                  units of 2^-33, 24 significant bits    *)
(*   f32 hue                        integer in units of 2^-15 degrees (the *)
(*                                  f32 spacing in [256, 512)), or HueNaN  *)
(***************************************************************************)
EXTENDS Integers, Sequences, FiniteSets, Bags

\* ---------------------------------------------------------------- bounds
MaxWidth == 2
MaxHeight == 4
MaxIter == 7
MaxCalls == 3

\* ------------------------------------------------------- program constants
\* DEFAULT_ZOOM = 0.003333333, in units of 1e-9
DEFAULT_ZOOM == 3333333
\* u16::MAX, the largest value of Config::iter
U16_MAX == 65535

\* ------------------------------------------------ f64 as fixed point + specials
FP == 256
PINF == 1000000001
NINF == -1000000001
NAN == 1000000002

IsNaN(a) == a = NAN
IsInf(a) == a = PINF \/ a = NINF
IsFinite(a) == ~IsNaN(a) /\ ~IsInf(a)
Sgn(a) == IF a = PINF THEN 1 ELSE IF a = NINF THEN -1
          ELSE IF a > 0 THEN 1 ELSE IF a < 0 THEN -1 ELSE 0
SignedInf(s) == IF s > 0 THEN PINF ELSE NINF

\* n / d rounded to the nearest integer, d # 0
RoundDiv(n, d) ==
    IF d > 0 THEN (2 * n + d) \div (2 * d) ELSE (2 * (-n) + (-d)) \div (2 * (-d))

FNeg(a) == IF IsNaN(a) THEN NAN ELSE IF a = PINF THEN NINF ELSE IF a = NINF THEN PINF ELSE -a

FAbs(a) == IF IsNaN(a) THEN NAN ELSE IF IsInf(a) THEN PINF ELSE IF a < 0 THEN -a ELSE a

FAdd(a, b) ==
    IF IsNaN(a) \/ IsNaN(b) THEN NAN
    ELSE IF IsInf(a) /\ IsInf(b) THEN (IF a = b THEN a ELSE NAN)
    ELSE IF IsInf(a) THEN a
    ELSE IF IsInf(b) THEN b
    ELSE a + b

FSub(a, b) == FAdd(a, FNeg(b))

FMul(a, b) ==
    IF IsNaN(a) \/ IsNaN(b) THEN NAN
    ELSE IF IsInf(a) \/ IsInf(b)
         THEN (IF Sgn(a) = 0 \/ Sgn(b) = 0 THEN NAN ELSE SignedInf(Sgn(a) * Sgn(b)))
    ELSE RoundDiv(a * b, FP)

\* a zero divisor is +0.0 in every division the program performs
FDiv(a, b) ==
    IF IsNaN(a) \/ IsNaN(b) THEN NAN
    ELSE IF IsInf(a) THEN (IF IsInf(b) THEN NAN ELSE SignedInf(Sgn(a) * (IF b < 0 THEN -1 ELSE 1)))
    ELSE IF IsInf(b) THEN 0
    ELSE IF b = 0 THEN (IF a = 0 THEN NAN ELSE SignedInf(Sgn(a)))
    ELSE RoundDiv(a * FP, b)

\* a <= b on f64: false when either side is NaN
FLe(a, b) ==
    IF IsNaN(a) \/ IsNaN(b) THEN FALSE
    ELSE IF a = NINF \/ b = PINF THEN TRUE
    ELSE IF a = PINF \/ b = NINF THEN FALSE
    ELSE a <= b

\* an unsigned integer converted to f64
FromInt(n) == n * FP

\* ------------------------------------------------------------- Config
PixelFormat == {"RGBA8", "BGRA8"}

\* the centres, in FP units: (0, 0) and (0.5, 0)
Centers == {<<0, 0>>, <<FP \div 2, 0>>}

\* config.zoom in units of 1e-9: negative, zero, DEFAULT_ZOOM, 2 * DEFAULT_ZOOM
Zooms == {-DEFAULT_ZOOM, 0, DEFAULT_ZOOM, 2 * DEFAULT_ZOOM}

Config(width, height, cx, cy, zoom, iter, pix) ==
    [width |-> width, height |-> height, center |-> <<cx, cy>>,
     zoom |-> zoom, iter |-> iter, pix |-> pix]

SmallConfigs ==
    {Config(w, h, c[1], c[2], z, n, p) :
        w \in 0..MaxWidth, h \in 0..MaxHeight, c \in Centers,
        z \in Zooms, n \in 0..MaxIter, p \in PixelFormat}

\* one pixel far outside the set, with the two largest iteration caps of u16
WideConfigs ==
    {Config(1, 1, 4 * FP, 0, DEFAULT_ZOOM, n, p) :
        n \in {U16_MAX - 1, U16_MAX}, p \in PixelFormat}

Configs == SmallConfigs \cup WideConfigs

\* the domain section 6 of the specification gives for a Configuration
ValidConfig(cfg) ==
    cfg.width > 0 /\ cfg.height > 0 /\ cfg.zoom > 0 /\ cfg.iter > 0

\* ------------------------------------------------------------- Mandelbrot::new
\* DEFAULT_ZOOM / config.zoom
ZoomFactor(cfg) ==
    IF cfg.zoom = 0 THEN PINF ELSE RoundDiv(DEFAULT_ZOOM * FP, cfg.zoom)

ViewportOf(cfg) ==
    LET zoom == ZoomFactor(cfg)
        viewport_height == FMul(FDiv(FromInt(cfg.height), FromInt(2)), zoom)
        viewport_width == FMul(FDiv(FromInt(cfg.width), FromInt(2)), zoom)
    IN  << <<FSub(cfg.center[1], viewport_width), FAdd(cfg.center[2], viewport_height)>>,
           <<FAdd(cfg.center[1], viewport_width), FSub(cfg.center[2], viewport_height)>> >>

\* Vec<u32>: hist[i] for 0 <= i < len is the number of copies of i in bag
EmptyVec == [len |-> 0, bag |-> EmptyBag]
HistAt(h, i) == CopiesIn(i, h.bag)
\* hist[i] += 1
HistIncr(h, i) == [h EXCEPT !.bag = @ (+) SetToBag({i})]

New(cfg) ==
    [config |-> cfg, hist |-> EmptyVec, iter_total |-> 0, viewport |-> ViewportOf(cfg)]

\* ------------------------------------------------------------- calc_point
\* the continuous iteration value is kept in eighths
MQ == 8

\* |z|^2 in units of 1 / (FP * FP)
NormSqr(z) ==
    IF IsNaN(z[1]) \/ IsNaN(z[2]) THEN NAN
    ELSE IF IsInf(z[1]) \/ IsInf(z[2]) THEN PINF
    ELSE z[1] * z[1] + z[2] * z[2]

\* (z * z) + c on Complex64
Step(z, c) ==
    << FAdd(FSub(FMul(z[1], z[1]), FMul(z[2], z[2])), c[1]),
       FAdd(FAdd(FMul(z[1], z[2]), FMul(z[2], z[1])), c[2]) >>

\* the while loop of calc_point: the final z and the u16 counter
RECURSIVE EscapeLoop(_, _, _, _)
EscapeLoop(z, c, iter, cap) ==
    IF FLe(NormSqr(z), 4 * FP * FP) /\ iter < cap
    THEN EscapeLoop(Step(z, c), c, iter + 1, cap)
    ELSE <<z, iter>>

\* log10(log2(|z|)) for |z|^2 = n / (FP * FP) > 4, as the midpoint, in
\* eighths, of the quarter it lies in: (0, 1/4] -> 1, (1/4, 1/2] -> 3,
\* (1/2, 3/4] -> 5, (3/4, 1] -> 7.  The quarter ends are
\* |z|^2 = 2^(2 * 10^(k/4)); n stays below 2^20 * FP * FP in this model.
LOG_Q1 == 771100
LOG_Q2 == 5252436
LOG_Q3 == 159261962

LogLogEighths(n) ==
    IF n <= LOG_Q1 THEN 1 ELSE IF n <= LOG_Q2 THEN 3 ELSE IF n <= LOG_Q3 THEN 5 ELSE 7

\* the value calc_point returns, in eighths, or NAN
ContinuousValue(z, iter) ==
    IF IsNaN(NormSqr(z)) THEN NAN
    ELSE (iter + 1) * MQ - LogLogEighths(NormSqr(z))

calc_point(c, cap) ==
    LET r == EscapeLoop(<<0, 0>>, c, 0, cap)
    IN  IF r[2] = cap THEN cap * MQ ELSE ContinuousValue(r[1], r[2])

\* the largest value the u16 counter of calc_point takes for the point c
LoopCounter(c, cap) == EscapeLoop(<<0, 0>>, c, 0, cap)[2]

\* ------------------------------------------------------------- pixel to point
x_step(vp, cfg) == FDiv(FAbs(FSub(vp[2][1], vp[1][1])), FromInt(cfg.width))
y_step(vp, cfg) == FDiv(FAbs(FSub(vp[1][2], vp[2][2])), FromInt(cfg.height))

PointOf(vp, cfg, px, py) ==
    << FAdd(vp[1][1], FMul(FromInt(px), x_step(vp, cfg))),
       FSub(vp[1][2], FMul(FromInt(py), y_step(vp, cfg))) >>

\* m < cap and m != cap on f64
Escaped(m, cap) == ~IsNaN(m) /\ m < cap * MQ
NotCap(m, cap) == IsNaN(m) \/ m # cap * MQ

\* f64 -> usize casts saturate: NaN and negative values give 0
FloorUsize(m) == IF IsNaN(m) \/ m < 0 THEN 0 ELSE m \div MQ
CeilUsize(m) == IF IsNaN(m) \/ m < 0 THEN 0 ELSE (m + MQ - 1) \div MQ

\* hist[iter.floor() as usize] in pass 1
HistIndex(m) == FloorUsize(m)
\* variant of HueLo: the lower index is rounded up
HueLo_Ceil(m) == CeilUsize(m)
\* hues[m.floor() as usize] and hues[m.ceil() as usize] in pass 2
HueLo(m) == FloorUsize(m)
HueHi(m) == CeilUsize(m)
\* m % 1.0, in eighths
Fract(m) == IF IsNaN(m) THEN NAN ELSE m % MQ

\* ------------------------------------------------------------- f32 arithmetic
\* 1.0 in the unit of the hues table, 2^-30
F32_ONE == 1073741824
F32NaN == -1
F32Inf == -2

RECURSIVE BitLen(_)
BitLen(n) == IF n = 0 THEN 0 ELSE 1 + BitLen(n \div 2)

\* round to nearest, ties to even: quotient q with remainder r of divisor d
RoundEven(q, r, d) ==
    IF 2 * r > d \/ (2 * r = d /\ q % 2 = 1) THEN q + 1 ELSE q

\* a non-negative multiple of 2^-30 rounded to the 24 significant bits of f32
F32Round(s) ==
    LET k == BitLen(s) - 24
    IN  IF k <= 0 THEN s
        ELSE RoundEven(s \div (2 ^ k), s % (2 ^ k), 2 ^ k) * (2 ^ k)

\* the least k with h * 2^k >= 2^23 * t
RECURSIVE MantShift(_, _, _)
MantShift(h, t, k) ==
    IF h * (2 ^ k) >= 8388608 * t THEN k ELSE MantShift(h, t, k + 1)

\* hist[i] as f32 / iter_total as f32, for 0 <= h <= t < 128 (both exact in f32)
F32Div(h, t) ==
    IF t = 0 THEN (IF h = 0 THEN F32NaN ELSE F32Inf)
    ELSE IF h = 0 THEN 0
    ELSE LET k == MantShift(h, t, 0)
             n == h * (2 ^ k)
         IN  RoundEven(n \div t, n % t, t) * (2 ^ (30 - k))

\* val + q on f32
F32Add(a, b) ==
    IF a = F32NaN \/ b = F32NaN THEN F32NaN
    ELSE IF a = F32Inf \/ b = F32Inf THEN F32Inf
    ELSE F32Round(a + b)

\* ------------------------------------------------------------- hues table
\* the loop `val += hist[i] / iter_total; hues.push(val)` for i in lo..=hi,
\* entered with the accumulator val; split in halves to keep the evaluation
\* shallow for a cap of 65535
RECURSIVE HuesRange(_, _, _, _, _)
HuesRange(h, total, lo, hi, val) ==
    IF lo > hi THEN <<>>
    ELSE IF lo = hi THEN <<F32Add(val, F32Div(HistAt(h, lo), total))>>
    ELSE LET mid == (lo + hi) \div 2
             left == HuesRange(h, total, lo, mid, val)
         IN  left \o HuesRange(h, total, mid + 1, hi, left[Len(left)])

\* hues[0 .. cap], kept as a sequence: hues[i] of the code is HuesTable(..)[i + 1]
HuesTable(h, total, cap) == HuesRange(h, total, 0, cap - 1, 0) \o <<0>>

\* ------------------------------------------------------------- colour of a pixel
B15 == 32768
PosNaN == <<-1, 0>>

\* a * (1 - t) + b * t in f64 (exact here), then `as f32`: 24 significant bits
PosRound(H, L) ==
    LET nb == BitLen(H)
        k == nb - 9
    IN  IF k <= 0 THEN <<H, L>>
        ELSE LET l2 == RoundEven(L \div (2 ^ k), L % (2 ^ k), 2 ^ k) * (2 ^ k)
             IN  IF l2 = B15 THEN <<H + 1, 0>> ELSE <<H, l2>>

linear_interpolation(a, b, t) ==
    IF a < 0 \/ b < 0 \/ IsNaN(t) THEN PosNaN
    ELSE LET low == (a % B15) * (MQ - t) + (b % B15) * t
         IN  PosRound((a \div B15) * (MQ - t) + (b \div B15) * t + low \div B15, low % B15)

\* pos > 1.0 and pos > 0.0 on the f32 value
PosAboveOne(pos) == pos[1] > 262144 \/ (pos[1] = 262144 /\ pos[2] > 0)
PosPositive(pos) == pos[1] > 0 \/ (pos[1] = 0 /\ pos[2] > 0)

\* 1.0 degree in the unit of a hue, 2^-15
HUE_ONE == 32768

\* hue = 360.0 - pos * 360.0 on f32
HueOf(pos) ==
    IF pos = PosNaN THEN NAN
    ELSE LET c == pos[2] * 360
             T == pos[1] * 360 + c \div B15
         IN  360 * HUE_ONE - RoundEven(T \div 8, (T % 8) * B15 + (c % B15), 8 * B15)

\* ------------------------------------------------------------- util::hsl_rgb
Abs(a) == IF a < 0 THEN -a ELSE a
\* integer division and remainder that truncate toward zero (`as i32 / 60`, fmod)
TruncDiv(a, d) == IF a >= 0 THEN a \div d ELSE -((-a) \div d)
TruncRem(a, d) == IF a >= 0 THEN a % d ELSE -((-a) % d)

\* <<q, r>> with a * b = q * d + r and 0 <= r < d, for a, b >= 0 and d > 0,
\* without a product wider than 32 bits
RECURSIVE MulDivRem(_, _, _)
MulDivRem(a, b, d) ==
    IF b = 0 THEN <<0, 0>>
    ELSE LET h == MulDivRem(a, b \div 2, d)
             t == 2 * h[2] + (b % 2) * (a % d)
         IN  <<2 * h[1] + (b % 2) * (a \div d) + t \div d, t % d>>

\* floor(a * b / d) for a >= 0, d > 0 and b of either sign
FloorMulDiv(a, b, d) ==
    IF b >= 0 THEN MulDivRem(a, b, d)[1]
    ELSE LET r == MulDivRem(a, -b, d)
         IN  -(r[1] + (IF r[2] > 0 THEN 1 ELSE 0))

\* f32 `as u8`: truncates and saturates
AsU8(v) == IF v < 0 THEN 0 ELSE IF v > 255 THEN 255 ELSE v

\* hue in units of 2^-15 degrees (or NAN), sat and lum in hundredths;
\* the channel arithmetic is exact, the code's is f32
hsl_rgb(hue, sat, lum) ==
    LET S60 == 60 * HUE_ONE
        \* c, in 1/10000
        c == (100 - Abs(2 * lum - 100)) * sat
        \* 1 - |(hue / 60) % 2 - 1|, in 1/S60; x = c * w
        w == S60 - Abs(TruncRem(hue, 2 * S60) - S60)
        \* m, in 1/20000
        m == 200 * lum - c
        arc == IF IsNaN(hue) THEN 0 ELSE TruncDiv(TruncDiv(hue, HUE_ONE), 60)
        chC == AsU8(((2 * c + m) * 255) \div 20000)
        ch0 == AsU8((m * 255) \div 20000)
        chX == IF IsNaN(hue) THEN 0
               ELSE AsU8((FloorMulDiv(2 * c * 255, w, S60) + m * 255) \div 20000)
    IN  IF arc = 0 THEN <<chC, chX, ch0>>
        ELSE IF arc = 1 THEN <<chX, chC, ch0>>
        ELSE IF arc = 2 THEN <<ch0, chC, chX>>
        ELSE IF arc = 3 THEN <<ch0, chX, chC>>
        ELSE IF arc = 4 THEN <<chX, ch0, chC>>
        ELSE <<chC, ch0, chX>>

\* lum = 0.5, sat = 0.90
point_color(hue) == hsl_rgb(hue, 90, 50)

\* variants of PackPixel: the alpha byte is not pushed; the format is ignored
PackPixel_NoAlpha(pix, rgb) ==
    IF pix = "RGBA8" THEN <<rgb[1], rgb[2], rgb[3]>>
    ELSE <<rgb[3], rgb[2], rgb[1]>>

PackPixel_AlwaysRGBA(pix, rgb) == <<rgb[1], rgb[2], rgb[3], 255>>

\* the four bytes pushed for an escaped pixel
PackPixel(pix, rgb) ==
    IF pix = "RGBA8" THEN <<rgb[1], rgb[2], rgb[3], 255>>
    ELSE <<rgb[3], rgb[2], rgb[1], 255>>

\* variant of Background: the alpha byte is 0
Background_Transparent == <<0, 0, 0, 0>>

\* the four bytes pushed for a pixel whose value equals the cap
Background == <<0, 0, 0, 255>>

\* ------------------------------------------------------------- u16 arithmetic
\* self.config.iter + 1 on u16
U16Add(a, b) == [val |-> (a + b) % (U16_MAX + 1), overflow |-> a + b > U16_MAX]

\* ------------------------------------------------------------- state
VARIABLES
    config,         \* Mandelbrot.config
    hist,           \* Mandelbrot.hist
    iter_total,     \* Mandelbrot.iter_total
    viewport,       \* Mandelbrot.viewport
    pc,             \* position in render: idle, pass1, pass2, panicked
    x, y,           \* the loop variables of the current pass
    image,          \* render's local `image`
    image_iter,     \* render's local `image_iter`
    hues,           \* render's local `hues`
    calls,          \* number of render calls that have returned
    returned,       \* the buffer the last completed call returned
    first_image,    \* the buffer the first completed call returned
    hue_reads,      \* the hues lookups of the current call's pass 2
    zero_div,       \* the current call divided by an iter_total of 0
    u16_overflow    \* a u16 addition overflowed

vars == <<config, hist, iter_total, viewport, pc, x, y, image, image_iter, hues,
          calls, returned, first_image, hue_reads, zero_div, u16_overflow>>

\* the state after Mandelbrot::new(cfg)
Constructed(cfg) ==
    /\ config = New(cfg).config
    /\ hist = New(cfg).hist
    /\ iter_total = New(cfg).iter_total
    /\ viewport = New(cfg).viewport
    /\ pc = "idle"
    /\ x = 0 /\ y = 0
    /\ image = <<>> /\ image_iter = <<>> /\ hues = <<>>
    /\ calls = 0 /\ returned = <<>> /\ first_image = <<>>
    /\ hue_reads = {}
    /\ zero_div = FALSE
    /\ u16_overflow = FALSE

Init == \E cfg \in SmallConfigs : Constructed(cfg)

\* variant of PushZeros: the zeros are inserted at the front
PushZeros_Front(h, n) ==
    [len |-> h.len + n,
     bag |-> [j \in {i + n : i \in DOMAIN h.bag} |-> h.bag[j - n]]]

\* `for _ in 0..iter { self.hist.push(0) }`
PushZeros(h, n) == [h EXCEPT !.len = @ + n]

\* both loops `for y in 0..height { for x in 0..width` have run to the end
LoopsDone == config.width = 0 \/ y >= config.height

NextX == IF x + 1 = config.width THEN 0 ELSE x + 1
NextY == IF x + 1 = config.width THEN y + 1 ELSE y

\* lines 118-125: the allocations and the histogram preparation
RenderBegin ==
    /\ pc = "idle"
    /\ calls < MaxCalls
    /\ hist' = PushZeros(hist, config.iter)
    /\ image' = <<>> /\ image_iter' = <<>> /\ hues' = <<>>
    /\ x' = 0 /\ y' = 0
    /\ hue_reads' = {}
    /\ zero_div' = FALSE
    /\ pc' = "pass1"
    /\ UNCHANGED <<config, iter_total, viewport, calls, returned, first_image, u16_overflow>>

\* lines 129-138: one pixel of pass 1
Pass1Pixel ==
    /\ pc = "pass1"
    /\ ~LoopsDone
    /\ LET iter == calc_point(PointOf(viewport, config, x, y), config.iter)
       IN  /\ IF Escaped(iter, config.iter)
              THEN /\ hist' = HistIncr(hist, HistIndex(iter))
                   /\ iter_total' = iter_total + 1
              ELSE UNCHANGED <<hist, iter_total>>
           /\ image_iter' = Append(image_iter, iter)
    /\ x' = NextX /\ y' = NextY
    /\ UNCHANGED <<config, viewport, pc, image, hues, calls, returned, first_image,
                   hue_reads, zero_div, u16_overflow>>

\* lines 142-148: the hues table
Normalize ==
    /\ pc = "pass1"
    /\ LoopsDone
    /\ u16_overflow' = (u16_overflow \/ U16Add(config.iter, 1).overflow)
    /\ hues' = HuesTable(hist, iter_total, config.iter)
    /\ zero_div' = (config.iter > 0 /\ iter_total = 0)
    /\ x' = 0 /\ y' = 0
    /\ pc' = "pass2"
    /\ UNCHANGED <<config, hist, iter_total, viewport, image, image_iter, calls,
                   returned, first_image, hue_reads>>

\* line 142 in a build with overflow checks: `iter + 1` panics
NormalizePanic ==
    /\ pc = "pass1"
    /\ LoopsDone
    /\ U16Add(config.iter, 1).overflow
    /\ u16_overflow' = TRUE
    /\ pc' = "panicked"
    /\ UNCHANGED <<config, hist, iter_total, viewport, x, y, image, image_iter, hues,
                   calls, returned, first_image, hue_reads, zero_div>>

\* lines 151-190: one pixel of pass 2
Pass2Pixel ==
    /\ pc = "pass2"
    /\ ~LoopsDone
    /\ LET idx == y * config.width + x
           m == image_iter[idx + 1]
           pos == linear_interpolation(hues[HueLo(m) + 1], hues[HueHi(m) + 1], Fract(m))
           hue == HueOf(pos)
       IN  IF NotCap(m, config.iter)
           THEN /\ image' = image \o PackPixel(config.pix, point_color(hue))
                /\ hue_reads' = hue_reads \cup
                      {[idx |-> idx, m |-> m, lo |-> HueLo(m), hi |-> HueHi(m),
                        pos |-> pos, hue |-> hue]}
           ELSE /\ image' = image \o Background
                /\ UNCHANGED hue_reads
    /\ x' = NextX /\ y' = NextY
    /\ UNCHANGED <<config, hist, iter_total, viewport, pc, image_iter, hues, calls,
                   returned, first_image, zero_div, u16_overflow>>

\* line 193: render returns `image`
RenderReturn ==
    /\ pc = "pass2"
    /\ LoopsDone
    /\ returned' = image
    /\ first_image' = IF calls = 0 THEN image ELSE first_image
    /\ calls' = calls + 1
    /\ pc' = "idle"
    /\ UNCHANGED <<config, hist, iter_total, viewport, x, y, image, image_iter, hues,
                   hue_reads, zero_div, u16_overflow>>

Next ==
    \/ RenderBegin
    \/ Pass1Pixel
    \/ Normalize
    \/ Pass2Pixel
    \/ RenderReturn

\* the instances with a small iteration cap, where `iter + 1` cannot overflow
Spec == Init /\ [][Next]_vars

\* all the instances, with the largest caps of u16 and the overflow panic
InitWide == \E cfg \in Configs : Constructed(cfg)

NextWide ==
    \/ NormalizePanic
    \/ Next

SpecWide == InitWide /\ [][NextWide]_vars

\* ------------------------------------------------------------- properties
cap == config.iter

\* the pixels pass 2 has written so far, as indexes y * width + x
Written == 0 .. (Len(image) \div 4 - 1)

\* the four bytes of the buffer b at pixel index i
PixelBytes(b, i) == <<b[4 * i + 1], b[4 * i + 2], b[4 * i + 3], b[4 * i + 4]>>

\* the colour (R, G, B) pass 2 computes for the value m
ColourOf(m) ==
    point_color(HueOf(linear_interpolation(hues[HueLo(m) + 1], hues[HueHi(m) + 1], Fract(m))))

\* C1: every buffer render returns, on the first call and on every later
\* call, has length width * height * 4.
C1_BufferLength ==
    calls >= 1 => Len(returned) = config.width * config.height * 4

C1_Witness ==
    /\ ValidConfig(config)
    /\ calls >= 2
    /\ pc = "idle"
    /\ Len(returned) >= 8
    /\ iter_total > 0

\* C2: at the start of pass 1 of every render call every histogram bucket is 0
\* and the escape total is 0.
C2_FreshWorkingState ==
    (ValidConfig(config) /\ pc = "pass1" /\ image_iter = <<>>)
        => /\ \A i \in 0..(cap - 1) : HistAt(hist, i) = 0
           /\ iter_total = 0

C5_InteriorBlack ==
    pc = "pass2" =>
        \A i \in Written :
            image_iter[i + 1] = cap * MQ =>
                /\ PixelBytes(image, i) = <<0, 0, 0, 255>>
                /\ \A r \in hue_reads : r.idx # i

C5_Witness ==
    /\ ValidConfig(config)
    /\ pc = "pass2"
    /\ LoopsDone
    /\ cap >= 1
    /\ \E i \in Written : image_iter[i + 1] = cap * MQ
    /\ hue_reads # {}

\* C6: when no pixel escapes, render divides by no zero escape total and no
\* hues entry is a not-a-number value.
C6_ZeroTotalGuarded ==
    (ValidConfig(config) /\ pc = "pass2" /\ iter_total = 0)
        => /\ ~zero_div
           /\ \A i \in 1..Len(hues) : hues[i] # F32NaN

\* C7: render never runs on a Configuration with zero or negative zoom, zero
\* width, zero height or zero iteration cap.
C7_InvalidRejected ==
    (pc # "idle" \/ calls > 0) => ValidConfig(config)

\* C8 (as stated): for every escaped pixel both indexes read from the hues
\* table, floor(m) and ceil(m), are strictly less than cap.
C8_SentinelUnread ==
    ValidConfig(config) =>
        \A r \in hue_reads : Escaped(r.m, cap) => (r.lo < cap /\ r.hi < cap)

\* C8 (amended): for every escaped pixel floor(m) < cap and ceil(m) <= cap, and
\* the entry at index cap is read exactly when m lies strictly above cap - 1.
C8_SentinelReadAtTop ==
    \A r \in hue_reads :
        Escaped(r.m, cap) =>
            /\ r.lo < cap
            /\ r.hi <= cap
            /\ r.hi = cap <=> r.m > (cap - 1) * MQ

C8_Witness ==
    /\ ValidConfig(config)
    /\ \E r \in hue_reads : Escaped(r.m, cap) /\ r.hi = cap /\ r.lo = cap - 1

\* C9: for every escaped pixel in every render call the interpolated position
\* is greater than 0 and at most 1 and the hue lies in [0, 360).
C9_HueRange ==
    ValidConfig(config) =>
        \A r \in hue_reads :
            Escaped(r.m, cap) =>
                /\ PosPositive(r.pos)
                /\ ~PosAboveOne(r.pos)
                /\ 0 <= r.hue
                /\ r.hue < 360 * HUE_ONE

\* C10: for every cap in 1..65535 render overflows no 16-bit integer: the
\* counter of calc_point never exceeds the cap and cap + 1 stays in u16.
C10_NoU16Overflow ==
    cap \in 1..U16_MAX =>
        /\ ~u16_overflow
        /\ pc # "panicked"
        /\ (pc = "pass1" /\ ~LoopsDone)
              => LoopCounter(PointOf(viewport, config, x, y), cap) <= cap

====
